---- MODULE Spec2Model ----
(***************************************************************************)
(* Model of neutron/agent/linux/ovs_lib.py: the OVSBridge flow commands,   *)
(* the DeferredOVSBridge flow batcher, and add_port with the ofport retry  *)
(* loop.                                                                   *)
(***************************************************************************)
EXTENDS Integers, Sequences, FiniteSets, TLC

\* Number of flow operations one behaviour submits to the DeferredOVSBridge.
MaxOps == 3

\* The wrapped bridge is called directly only while at most this many
\* operations have been submitted to the DeferredOVSBridge.
MaxDirectAt == 1

\* ovs_lib.py:37
INVALID_OFPORT == "-1"

(***************************************************************************)
(* A flow rule (the kwargs dict of add_flow/mod_flow/delete_flows) is a    *)
(* sequence of <<key, value>> pairs with distinct keys, in the iteration   *)
(* order of the dict.                                                      *)
(***************************************************************************)
DictHas(d, k) == \E i \in 1..Len(d) : d[i][1] = k

DictGet(d, k, default) ==
    IF DictHas(d, k)
    THEN d[CHOOSE i \in 1..Len(d) : d[i][1] = k][2]
    ELSE default

DictPop(d, k) == SelectSeq(d, LAMBDA e : e[1] # k)

\* The flow rules the callers of the model submit.
\* FlowA is valid for add, mod and del; FlowP is invalid for each of them (no
\* actions for add, priority for mod and del).
FlowA == << <<"in_port", "1">>, <<"actions", "drop">> >>
FlowP == << <<"priority", "5">>, <<"proto", "arp">> >>
Flows == {FlowA, FlowP}

(***************************************************************************)
(* _build_flow_expr_str: the rendered expression is the sequence of its    *)
(* comma-joined tokens; a token is <<key, value>> for key=value and        *)
(* <<value>> for the bare proto token.  error is "InvalidInput" when the   *)
(* function raises.                                                        *)
(***************************************************************************)
\* a rendering that checks priority for a deletion only
_build_flow_expr_str_del_only(flow_dict, cmd) ==
    LET head == IF cmd = "add"
                THEN << <<"hard_timeout", DictGet(flow_dict, "hard_timeout", "0")>>,
                        <<"idle_timeout", DictGet(flow_dict, "idle_timeout", "0")>>,
                        <<"priority", DictGet(flow_dict, "priority", "1")>> >>
                ELSE <<>>
        d1 == IF cmd = "add"
              THEN DictPop(DictPop(DictPop(flow_dict, "hard_timeout"),
                                   "idle_timeout"), "priority")
              ELSE flow_dict
        prio_error == cmd = "del" /\ DictHas(flow_dict, "priority")
        act_error == cmd # "del" /\ ~DictHas(d1, "actions")
        actions == IF cmd # "del"
                   THEN << <<"actions", DictGet(d1, "actions", "")>> >>
                   ELSE <<>>
        d2 == IF cmd # "del" THEN DictPop(d1, "actions") ELSE d1
        body == [i \in 1..Len(d2) |->
                    IF d2[i][1] = "proto" THEN <<d2[i][2]>> ELSE d2[i]]
    IN  IF prio_error \/ act_error
        THEN [error |-> "InvalidInput", expr |-> <<>>]
        ELSE [error |-> "", expr |-> head \o body \o actions]

\* a rendering that reads the three leading fields and leaves them in the rule
_build_flow_expr_str_get(flow_dict, cmd) ==
    LET head == IF cmd = "add"
                THEN << <<"hard_timeout", DictGet(flow_dict, "hard_timeout", "0")>>,
                        <<"idle_timeout", DictGet(flow_dict, "idle_timeout", "0")>>,
                        <<"priority", DictGet(flow_dict, "priority", "1")>> >>
                ELSE <<>>
        d1 == flow_dict
        prio_error == cmd # "add" /\ DictHas(flow_dict, "priority")
        act_error == cmd # "del" /\ ~DictHas(d1, "actions")
        actions == IF cmd # "del"
                   THEN << <<"actions", DictGet(d1, "actions", "")>> >>
                   ELSE <<>>
        d2 == IF cmd # "del" THEN DictPop(d1, "actions") ELSE d1
        body == [i \in 1..Len(d2) |->
                    IF d2[i][1] = "proto" THEN <<d2[i][2]>> ELSE d2[i]]
    IN  IF prio_error \/ act_error
        THEN [error |-> "InvalidInput", expr |-> <<>>]
        ELSE [error |-> "", expr |-> head \o body \o actions]

_build_flow_expr_str(flow_dict, cmd) ==
    LET head == IF cmd = "add"
                THEN << <<"hard_timeout", DictGet(flow_dict, "hard_timeout", "0")>>,
                        <<"idle_timeout", DictGet(flow_dict, "idle_timeout", "0")>>,
                        <<"priority", DictGet(flow_dict, "priority", "1")>> >>
                ELSE <<>>
        d1 == IF cmd = "add"
              THEN DictPop(DictPop(DictPop(flow_dict, "hard_timeout"),
                                   "idle_timeout"), "priority")
              ELSE flow_dict
        prio_error == cmd # "add" /\ DictHas(flow_dict, "priority")
        act_error == cmd # "del" /\ ~DictHas(d1, "actions")
        actions == IF cmd # "del"
                   THEN << <<"actions", DictGet(d1, "actions", "")>> >>
                   ELSE <<>>
        d2 == IF cmd # "del" THEN DictPop(d1, "actions") ELSE d1
        body == [i \in 1..Len(d2) |->
                    IF d2[i][1] = "proto" THEN <<d2[i][2]>> ELSE d2[i]]
    IN  IF prio_error \/ act_error
        THEN [error |-> "InvalidInput", expr |-> <<>>]
        ELSE [error |-> "", expr |-> head \o body \o actions]

(***************************************************************************)
(* OVSBridge.do_action_flows(action, kwargs_list): every rule is rendered  *)
(* first; the ovs-ofctl command is issued only when all rendered.  An      *)
(* entry of kwargs_list is [action, flow, id]; id is the identity of the   *)
(* kwargs object a DeferredOVSBridge buffered (0 for a rule passed to the  *)
(* bridge directly).  The result is the error raised ("" for none) and the *)
(* commands handed to run_ofctl.                                           *)
(***************************************************************************)
\* do_action_flows that pipes the rules rendered so far before it raises
do_action_flows_partial(action, kwargs_list) ==
    LET flow_strs == [i \in 1..Len(kwargs_list) |->
                         _build_flow_expr_str(kwargs_list[i].flow, action)]
        good == {i \in 1..Len(kwargs_list) :
                     \A j \in 1..i : flow_strs[j].error = ""}
        n == Cardinality(good)
    IN  [error |-> IF n = Len(kwargs_list) THEN "" ELSE "InvalidInput",
         cmds |-> << [cmd |-> action,
                      ids |-> [i \in 1..n |-> kwargs_list[i].id],
                      input |-> [i \in 1..n |-> flow_strs[i].expr]] >>]

\* do_action_flows that runs one command for each rule
do_action_flows_each(action, kwargs_list) ==
    LET flow_strs == [i \in 1..Len(kwargs_list) |->
                         _build_flow_expr_str(kwargs_list[i].flow, action)]
    IN  IF \E i \in 1..Len(kwargs_list) : flow_strs[i].error # ""
        THEN [error |-> "InvalidInput", cmds |-> <<>>]
        ELSE [error |-> "",
              cmds |-> [i \in 1..Len(kwargs_list) |->
                           [cmd |-> action,
                            ids |-> <<kwargs_list[i].id>>,
                            input |-> <<flow_strs[i].expr>>]]]

do_action_flows(action, kwargs_list) ==
    LET flow_strs == [i \in 1..Len(kwargs_list) |->
                         _build_flow_expr_str(kwargs_list[i].flow, action)]
    IN  IF \E i \in 1..Len(kwargs_list) : flow_strs[i].error # ""
        THEN [error |-> "InvalidInput", cmds |-> <<>>]
        ELSE [error |-> "",
              cmds |-> << [cmd |-> action,
                           ids |-> [i \in 1..Len(kwargs_list) |-> kwargs_list[i].id],
                           input |-> [i \in 1..Len(kwargs_list) |-> flow_strs[i].expr]] >>]

(***************************************************************************)
(* DeferredOVSBridge.__init__: weights maps a kind to its index in order   *)
(* (the last index when a kind is repeated).                               *)
(***************************************************************************)
DefaultOrder == <<"add", "mod", "del">>
Orders == {DefaultOrder, <<"del", "add", "mod">>}

weights(ord, kind) ==
    CHOOSE x \in 1..Len(ord) :
        /\ ord[x] = kind
        /\ \A y \in 1..Len(ord) : ord[y] = kind => y <= x

\* an insertion that puts an element before the elements of equal weight
RECURSIVE InsertByWeight_unstable(_, _, _)
InsertByWeight_unstable(sorted, e, ord) ==
    IF sorted = <<>> THEN <<e>>
    ELSE IF weights(ord, sorted[Len(sorted)].action) < weights(ord, e.action)
         THEN Append(sorted, e)
         ELSE Append(InsertByWeight_unstable(SubSeq(sorted, 1, Len(sorted) - 1), e, ord),
                     sorted[Len(sorted)])

\* list.sort(key=...): a stable sort, here by insertion from the left.
RECURSIVE InsertByWeight(_, _, _)
InsertByWeight(sorted, e, ord) ==
    IF sorted = <<>> THEN <<e>>
    ELSE IF weights(ord, sorted[Len(sorted)].action) <= weights(ord, e.action)
         THEN Append(sorted, e)
         ELSE Append(InsertByWeight(SubSeq(sorted, 1, Len(sorted) - 1), e, ord),
                     sorted[Len(sorted)])

RECURSIVE SortByWeight(_, _)
SortByWeight(tuples, ord) ==
    IF tuples = <<>> THEN <<>>
    ELSE InsertByWeight(SortByWeight(SubSeq(tuples, 1, Len(tuples) - 1), ord),
                        tuples[Len(tuples)], ord)

\* a grouping that makes one run of every tuple
GroupBy_single(tuples) == [i \in 1..Len(tuples) |-> <<tuples[i]>>]

\* itertools.groupby(..., key=itemgetter(0)): maximal runs of equal action.
RECURSIVE GroupBy(_)
GroupBy(tuples) ==
    IF tuples = <<>> THEN <<>>
    ELSE LET rest == GroupBy(SubSeq(tuples, 1, Len(tuples) - 1))
             e == tuples[Len(tuples)]
         IN  IF rest # <<>> /\ rest[Len(rest)][1].action = e.action
             THEN [rest EXCEPT ![Len(rest)] = Append(@, e)]
             ELSE Append(rest, <<e>>)

\* a loop that goes on with the next run after a run that raises
RECURSIVE IssueRuns_continue(_, _)
IssueRuns_continue(runs, k) ==
    IF k > Len(runs) THEN [error |-> "", cmds |-> <<>>]
    ELSE LET r == do_action_flows(runs[k][1].action, runs[k])
             rest == IssueRuns_continue(runs, k + 1)
         IN  [error |-> IF r.error # "" THEN r.error ELSE rest.error,
              cmds |-> r.cmds \o rest.cmds]

\* The loop of apply_flows over the runs: stops at the first run that raises.
RECURSIVE IssueRuns(_, _)
IssueRuns(runs, k) ==
    IF k > Len(runs) THEN [error |-> "", cmds |-> <<>>]
    ELSE LET r == do_action_flows(runs[k][1].action, runs[k])
         IN  IF r.error # "" THEN r
             ELSE LET rest == IssueRuns(runs, k + 1)
                  IN  [error |-> rest.error, cmds |-> r.cmds \o rest.cmds]

(***************************************************************************)
(* The ofport poll: what "ovs-vsctl get Interface <port> ofport" gives     *)
(* db_get_val.  "None" stands for Python's None (the command failed and    *)
(* run_vsctl swallowed the failure, or the output was empty).              *)
(***************************************************************************)
PendingOutputs == {"None", "[]"}
IntOutputs == {"5", "-1"}

\* int(result): the integer a poll output parses to; ok is FALSE for the
\* ValueError / TypeError of int().
ParseInt(result) ==
    CASE result = "5" -> [ok |-> TRUE, val |-> 5]
      [] result = "-1" -> [ok |-> TRUE, val |-> 0 - 1]
      [] OTHER -> [ok |-> FALSE, val |-> 0]

\* a classification that takes only '[]' for pending
_ofport_result_pending_brackets(result) == result = "[]"

\* _ofport_result_pending
_ofport_result_pending(result) == ~ParseInt(result).ok

\* retrying.retry(wait_exponential_multiplier=10, wait_exponential_max=1000):
\* the wait in ms after attempt number previous_attempt_number.
RECURSIVE Pow2(_)
Pow2(n) == IF n = 0 THEN 1 ELSE 2 * Pow2(n - 1)

wait_exponential_multiplier == 10
wait_exponential_max == 1000

\* a wait without the cap of wait_exponential_max
exponential_sleep_uncapped(previous_attempt_number) ==
    wait_exponential_multiplier * Pow2(previous_attempt_number)

exponential_sleep(previous_attempt_number) ==
    LET result == wait_exponential_multiplier * Pow2(previous_attempt_number)
    IN  IF result > wait_exponential_max THEN wait_exponential_max ELSE result

\* retrying.retry(stop_max_delay=self.vsctl_timeout * 1000)
stop_max_delay(timeout) == timeout * 1000

\* a stop that takes vsctl_timeout for milliseconds
stop_after_delay_ms(timeout, delay_since_first_attempt_ms) ==
    delay_since_first_attempt_ms >= timeout

stop_after_delay(timeout, delay_since_first_attempt_ms) ==
    delay_since_first_attempt_ms >= stop_max_delay(timeout)

\* get_port_ofport: ofport is INVALID_OFPORT unless _get_port_ofport returns;
\* only retrying.RetryError is caught.
get_port_ofport_except(exc) ==
    IF exc = "RetryError"
    THEN [ofport |-> INVALID_OFPORT, raised |-> "none"]
    ELSE [ofport |-> "none", raised |-> exc]

\* vsctl_timeout is drawn from 0..MaxTimeout (seconds).
MaxTimeout == 2

\* A poll answers pending at most this many times before it answers an integer.
MaxK == 8

\* The poll never answers an integer.
Never == 0 - 1

\* The time one ovs-vsctl poll takes, in ms.
PollTimes == {0, 400}

(***************************************************************************)
(* The executor (utils.execute) and the two command runners.  An outcome   *)
(* of the executor is [status, code]: status "ok", "RuntimeError" (the     *)
(* command exited with the non-zero code) or "OSError" (it could not be    *)
(* run).                                                                   *)
(***************************************************************************)
ExitCodes == {"1", "2", "22"}

Outcomes ==
    {[status |-> "ok", code |-> "0"], [status |-> "OSError", code |-> "0"]}
    \cup {[status |-> "RuntimeError", code |-> c] : c \in ExitCodes}

HardFailures == {o \in Outcomes : o.status # "ok"}

\* str(e) of the RuntimeError of the executor, as the sequence of its pieces.
ErrorText(outcome) ==
    <<"\n", "Command: ", "ovs-vsctl", "\n", "Exit code: ", outcome.code, "\n",
      "Stdout: ", "''", "\n", "Stderr: ", "''">>

\* pattern in text
Contains(text, pattern) ==
    \E i \in 1..(Len(text) - Len(pattern) + 1) :
        SubSeq(text, i, i + Len(pattern) - 1) = pattern

\* BaseOVS.run_vsctl: the failure is logged; it is raised again only with
\* check_error, otherwise the call returns None.
run_vsctl(outcome, check_error) ==
    IF outcome.status = "ok"
    THEN [raised |-> "none", msg |-> <<>>, output |-> "output"]
    ELSE IF check_error
    THEN [raised |-> outcome.status, msg |-> ErrorText(outcome), output |-> "None"]
    ELSE [raised |-> "none", msg |-> <<>>, output |-> "None"]

\* OVSBridge.run_ofctl: the failure is logged, the call returns None.
run_ofctl(outcome) ==
    IF outcome.status = "ok"
    THEN [raised |-> "none", msg |-> <<>>, output |-> "output"]
    ELSE [raised |-> "none", msg |-> <<>>, output |-> "None"]

\* a bridge_exists that takes every RuntimeError for "no such bridge"
bridge_exists_any(outcome) ==
    LET r == run_vsctl(outcome, TRUE)
    IN  IF r.raised = "RuntimeError"
        THEN [raised |-> "none", value |-> "False"]
        ELSE IF r.raised # "none"
        THEN [raised |-> r.raised, value |-> "None"]
        ELSE [raised |-> "none", value |-> "True"]

\* BaseOVS.bridge_exists
bridge_exists(outcome) ==
    LET r == run_vsctl(outcome, TRUE)
    IN  IF r.raised = "RuntimeError"
        THEN IF Contains(r.msg, <<"Exit code: ", "2", "\n">>)
             THEN [raised |-> "none", value |-> "False"]
             ELSE [raised |-> "RuntimeError", value |-> "None"]
        ELSE IF r.raised # "none"
        THEN [raised |-> r.raised, value |-> "None"]
        ELSE [raised |-> "none", value |-> "True"]

\* What "ovs-vsctl get Interface <port> ofport" writes to stdout, as its
\* pieces: nothing, or a value and the line end.
Stdouts == {<<>>} \cup {<<v, "\n">> : v \in {"[]"} \cup IntOutputs}

\* output.rstrip("\n\r"), as one string.
RECURSIVE rstrip(_)
rstrip(output) ==
    IF output = <<>> THEN ""
    ELSE IF output[Len(output)] \in {"\n", "\r"}
    THEN rstrip(SubSeq(output, 1, Len(output) - 1))
    ELSE output[1]

\* _get_port_ofport: db_get_val("Interface", port_name, "ofport") with
\* check_error=False.  None when the command failed or printed nothing.
_get_port_ofport(outcome, stdout) ==
    LET r == run_vsctl(outcome, FALSE)
    IN  IF r.output = "None" \/ stdout = <<>> THEN "None" ELSE rstrip(stdout)

\* The executor's answers to one poll: a failure, or success with a stdout.
Replies ==
    {[outcome |-> o, stdout |-> <<>>] : o \in HardFailures}
    \cup {[outcome |-> [status |-> "ok", code |-> "0"], stdout |-> out] : out \in Stdouts}

\* The ports the model gives names to.
PortNames == {"p1", "p2"}

VARIABLES
    full_ordered,        \* DeferredOVSBridge.full_ordered
    order,               \* DeferredOVSBridge.order
    action_flow_tuples,  \* DeferredOVSBridge.action_flow_tuples
    lastCmds,            \* the ovs-ofctl commands the last operation handed to
                         \* the executor, in order
    timesIssued,         \* id -> number of commands that carried the operation
    nsub,                \* number of flow operations submitted so far
    inScope,             \* the caller is inside "with deferred_br:"
    lastOp,              \* the operation that ran last
    lastResult,          \* "ok" or the exception it ended with
    prevBuf,             \* action_flow_tuples when the last operation started
    aborted              \* ids buffered when a scope was left by a failure

flowVars == <<full_ordered, order, action_flow_tuples, lastCmds, timesIssued,
              nsub, inScope, lastOp, lastResult, prevBuf, aborted>>

VARIABLES
    vsctl_timeout,       \* BaseOVS.vsctl_timeout, in seconds
    portPresent,         \* the bridge has the port
    pc,                  \* where the caller of add_port / get_port_ofport is
    caller,              \* the operation that is running
    planK,               \* the switch answers pending to the first planK polls
                         \* of this call (Never: to all of them)
    planVal,             \* and planVal to the later ones
    attempt_number,      \* retrying: number of the next attempt
    elapsed,             \* ms since the first attempt started
    backoff,             \* ms this call has slept between attempts
    lastCheck,           \* elapsed at the last stop check (Never: no check yet)
    ofport,              \* what get_port_ofport returned
    raised               \* the exception that left the running operation

portVars == <<vsctl_timeout, portPresent, pc, caller, planK, planVal,
              attempt_number, elapsed, backoff, lastCheck, ofport, raised>>

VARIABLES
    bridgePresent,       \* the switch has the bridge br_name
    swPorts,             \* the ports of the bridge
    dbAttr,              \* the value of the database column set / cleared
    cmdOp,               \* the bridge operation that ran last
    cmdOutcome,          \* what the executor did with its command
    cmdIssued,           \* how many times the operation ran its command
    cmdRaised,           \* the exception the operation ended with ("none")
    cmdValue             \* what the operation returned

cmdVars == <<bridgePresent, swPorts, dbAttr, cmdOp, cmdOutcome, cmdIssued,
             cmdRaised, cmdValue>>

VARIABLES
    fn,                  \* the function applied last ("none" before it)
    arg,                 \* its argument
    res                  \* its result

pureVars == <<fn, arg, res>>

vars == <<flowVars, portVars, cmdVars, pureVars>>

BufIds(buf) == {buf[i].id : i \in 1..Len(buf)}

InitFlow ==
    /\ full_ordered \in BOOLEAN
    /\ order \in IF full_ordered THEN {DefaultOrder} ELSE Orders
    /\ action_flow_tuples = <<>>
    /\ lastCmds = <<>>
    /\ timesIssued = [id \in 1..MaxOps |-> 0]
    /\ nsub = 0
    /\ inScope = FALSE
    /\ lastOp = "init"
    /\ lastResult = "ok"
    /\ prevBuf = <<>>
    /\ aborted = {}

PortIdle ==
    /\ pc = "idle"
    /\ caller = "none"
    /\ planK = 0
    /\ planVal = "5"
    /\ attempt_number = 1
    /\ elapsed = 0
    /\ backoff = 0
    /\ lastCheck = Never
    /\ ofport = "none"
    /\ raised = "none"

CmdIdle ==
    /\ cmdOp = "none"
    /\ cmdOutcome = [status |-> "ok", code |-> "0"]
    /\ cmdIssued = 0
    /\ cmdRaised = "none"
    /\ cmdValue = "None"

SwitchEmpty ==
    /\ bridgePresent = FALSE
    /\ swPorts = {}
    /\ dbAttr = "unset"

PureIdle ==
    /\ fn = "none"
    /\ arg = <<>>
    /\ res = <<>>

Init ==
    /\ InitFlow
    /\ vsctl_timeout = MaxTimeout
    /\ portPresent = FALSE
    /\ PortIdle
    /\ SwitchEmpty
    /\ CmdIdle
    /\ PureIdle

\* The executor receives the commands cmds, in order.
Execute(cmds) ==
    /\ lastCmds' = cmds
    /\ timesIssued' =
           [id \in 1..MaxOps |->
               timesIssued[id] + Cardinality({<<c, i>> \in (1..Len(cmds)) \X (1..MaxOps) :
                                                 i <= Len(cmds[c].ids) /\ cmds[c].ids[i] = id})]

\* What every operation records about itself.
Record(op, result) ==
    /\ lastOp' = op
    /\ lastResult' = result
    /\ prevBuf' = action_flow_tuples

\* a submission that is written through to the bridge as well
Submit_eager(kind, flow) ==
    /\ nsub < MaxOps
    /\ nsub' = nsub + 1
    /\ action_flow_tuples' =
           Append(action_flow_tuples, [action |-> kind, flow |-> flow, id |-> nsub + 1])
    /\ Execute(do_action_flows(kind, << [action |-> kind, flow |-> flow,
                                         id |-> nsub + 1] >>).cmds)
    /\ UNCHANGED <<full_ordered, order, inScope, aborted>>
    /\ UNCHANGED portVars
    /\ UNCHANGED <<cmdVars, pureVars>>

\* DeferredOVSBridge.add_flow / mod_flow / delete_flows
Submit(kind, flow) ==
    /\ nsub < MaxOps
    /\ nsub' = nsub + 1
    /\ action_flow_tuples' =
           Append(action_flow_tuples, [action |-> kind, flow |-> flow, id |-> nsub + 1])
    /\ Execute(<<>>)
    /\ UNCHANGED <<full_ordered, order, inScope, aborted>>
    /\ UNCHANGED portVars
    /\ UNCHANGED <<cmdVars, pureVars>>

add_flow == \E flow \in Flows : Submit("add", flow) /\ Record("add_flow", "ok")

mod_flow == \E flow \in Flows : Submit("mod", flow) /\ Record("mod_flow", "ok")

delete_flows == \E flow \in Flows : Submit("del", flow) /\ Record("delete_flows", "ok")

\* an apply_flows that keeps the buffer
ApplyFlowsEffect_keep ==
    LET tuples == IF full_ordered
                  THEN action_flow_tuples
                  ELSE SortByWeight(action_flow_tuples, order)
        r == IssueRuns(GroupBy(tuples), 1)
    IN  /\ action_flow_tuples' = action_flow_tuples
        /\ Execute(r.cmds)
        /\ lastResult' = IF r.error = "" THEN "ok" ELSE r.error

\* an apply_flows that empties the buffer after the loop, so only when no
\* run raised
ApplyFlowsEffect_late_clear ==
    LET tuples == IF full_ordered
                  THEN action_flow_tuples
                  ELSE SortByWeight(action_flow_tuples, order)
        r == IssueRuns(GroupBy(tuples), 1)
    IN  /\ action_flow_tuples' = IF r.error = "" THEN <<>> ELSE action_flow_tuples
        /\ Execute(r.cmds)
        /\ lastResult' = IF r.error = "" THEN "ok" ELSE r.error

\* DeferredOVSBridge.apply_flows
ApplyFlowsEffect ==
    LET tuples == IF full_ordered
                  THEN action_flow_tuples
                  ELSE SortByWeight(action_flow_tuples, order)
        r == IssueRuns(GroupBy(tuples), 1)
    IN  /\ action_flow_tuples' = <<>>
        /\ Execute(r.cmds)
        /\ lastResult' = IF r.error = "" THEN "ok" ELSE r.error

apply_flows ==
    /\ ApplyFlowsEffect
    /\ lastOp' = "apply_flows"
    /\ prevBuf' = action_flow_tuples
    /\ UNCHANGED <<full_ordered, order, nsub, inScope, aborted>>
    /\ UNCHANGED portVars
    /\ UNCHANGED <<cmdVars, pureVars>>

\* DeferredOVSBridge.__enter__
Enter ==
    /\ ~inScope
    /\ inScope' = TRUE
    /\ Record("enter", "ok")
    /\ Execute(<<>>)
    /\ UNCHANGED <<full_ordered, order, action_flow_tuples, nsub, aborted>>
    /\ UNCHANGED portVars
    /\ UNCHANGED <<cmdVars, pureVars>>

\* DeferredOVSBridge.__exit__ with exc_type None
ExitOk ==
    /\ inScope
    /\ inScope' = FALSE
    /\ ApplyFlowsEffect
    /\ lastOp' = "exit_ok"
    /\ prevBuf' = action_flow_tuples
    /\ UNCHANGED <<full_ordered, order, nsub, aborted>>
    /\ UNCHANGED portVars
    /\ UNCHANGED <<cmdVars, pureVars>>

\* The exceptions the body of a scope ends with.
BodyErrors == {"InvalidInput", "RuntimeError"}

\* an __exit__ that applies the flows also when an exception is active
ExitFail_flush ==
    /\ inScope
    /\ inScope' = FALSE
    /\ ApplyFlowsEffect
    /\ lastOp' = "exit_fail"
    /\ prevBuf' = action_flow_tuples
    /\ aborted' = aborted \cup BufIds(action_flow_tuples)
    /\ UNCHANGED <<full_ordered, order, nsub>>
    /\ UNCHANGED portVars
    /\ UNCHANGED <<cmdVars, pureVars>>

\* DeferredOVSBridge.__exit__ with an exception: logs and returns None, so
\* the exception propagates.
ExitFail ==
    /\ inScope
    /\ inScope' = FALSE
    /\ \E exc \in BodyErrors : Record("exit_fail", exc)
    /\ aborted' = aborted \cup BufIds(action_flow_tuples)
    /\ Execute(<<>>)
    /\ UNCHANGED <<full_ordered, order, action_flow_tuples, nsub>>
    /\ UNCHANGED portVars
    /\ UNCHANGED <<cmdVars, pureVars>>

\* OVSBridge.add_flow / mod_flow / delete_flows on the wrapped bridge
BridgeFlow(kind, op) ==
    /\ nsub <= MaxDirectAt
    /\ \E flow \in Flows :
         LET r == do_action_flows(kind, << [action |-> kind, flow |-> flow,
                                            id |-> 0] >>)
         IN  /\ Execute(r.cmds)
             /\ Record(op, IF r.error = "" THEN "ok" ELSE r.error)
    /\ UNCHANGED <<full_ordered, order, action_flow_tuples, nsub, inScope, aborted>>
    /\ UNCHANGED portVars
    /\ UNCHANGED <<cmdVars, pureVars>>

br_add_flow == BridgeFlow("add", "br.add_flow")

br_mod_flow == BridgeFlow("mod", "br.mod_flow")

br_delete_flows == BridgeFlow("del", "br.delete_flows")

ALLOWED_PASSTHROUGHS == {"add_port", "add_tunnel_port", "delete_port"}

\* Operations of the bridge that are neither wrapped nor allowed through.
OtherBridgeOps == {"remove_all_flows", "set_db_attribute"}

\* a lookup that hands out every operation of the bridge
__getattr___any(name) ==
    [raised |-> "none", value |-> "br." \o name]

\* DeferredOVSBridge.__getattr__: the bound method of the wrapped bridge, or
\* AttributeError.
__getattr__(name) ==
    IF name \in ALLOWED_PASSTHROUGHS
    THEN [raised |-> "none", value |-> "br." \o name]
    ELSE [raised |-> "AttributeError", value |-> "none"]

\* An operation other than add_flow, mod_flow, delete_flows and apply_flows
\* is looked up on the wrapper.
deferred_getattr ==
    /\ nsub <= MaxDirectAt
    /\ \E name \in ALLOWED_PASSTHROUGHS \cup OtherBridgeOps :
         LET r == __getattr__(name)
         IN  /\ Execute(<<>>)
             /\ Record(name, IF r.raised = "none" THEN r.value ELSE r.raised)
    /\ UNCHANGED <<full_ordered, order, action_flow_tuples, nsub, inScope, aborted>>
    /\ UNCHANGED portVars
    /\ UNCHANGED <<cmdVars, pureVars>>

\* Number of ofport polls of one add_port called through the wrapper.
MaxPolls == 2

VsctlCmd(cmd, options) == [cmd |-> cmd, ids |-> <<>>, input |-> options]

\* The interface options add_tunnel_port hands to add_port.
TunnelOptions ==
    << << <<"type", "gre">>, <<"options:df_default", "true">>,
          <<"options:remote_ip", "10.0.0.2">>, <<"options:local_ip", "10.0.0.1">>,
          <<"options:in_key", "flow">>, <<"options:out_key", "flow">> >> >>

\* The ovs-vsctl commands of OVSBridge.add_port with polls polls of the ofport
\* that end with port_num: add-port, the polls, del-port for INVALID_OFPORT.
add_port_cmds(options, polls, port_num) ==
    <<VsctlCmd("add-port", options)>>
        \o [i \in 1..polls |-> VsctlCmd("get", <<>>)]
        \o (IF port_num = INVALID_OFPORT THEN <<VsctlCmd("del-port", <<>>)>> ELSE <<>>)

\* The commands and the result of the bridge operation name.
BridgePortOp(name, polls, port_num) ==
    CASE name = "delete_port" ->
             [cmds |-> <<VsctlCmd("del-port", <<>>)>>, result |-> "None"]
      [] name = "add_tunnel_port" ->
             [cmds |-> add_port_cmds(TunnelOptions, polls, port_num), result |-> port_num]
      [] OTHER ->
             [cmds |-> add_port_cmds(<<>>, polls, port_num), result |-> port_num]

\* The inputs of BridgePortOp that differ in what name does.
PortRuns(name) ==
    IF name = "delete_port" THEN {<<1, "None">>}
    ELSE (1..MaxPolls) \X IntOutputs

\* a passthrough that flushes the buffer before it calls the bridge
deferred_passthrough_flush ==
    /\ nsub <= MaxDirectAt
    /\ \E name \in ALLOWED_PASSTHROUGHS :
         \E run \in PortRuns(name) :
            LET b == BridgePortOp(name, run[1], run[2])
                r == IssueRuns(GroupBy(SortByWeight(action_flow_tuples, order)), 1)
            IN  /\ Execute(r.cmds \o b.cmds)
                /\ Record("deferred." \o name, b.result)
    /\ action_flow_tuples' = <<>>
    /\ UNCHANGED <<full_ordered, order, nsub, inScope, aborted>>
    /\ UNCHANGED portVars
    /\ UNCHANGED <<cmdVars, pureVars>>

\* add_port, add_tunnel_port or delete_port called on the wrapper:
\* __getattr__ gives the method of the wrapped bridge and the call runs it.
deferred_passthrough ==
    /\ nsub <= MaxDirectAt
    /\ \E name \in ALLOWED_PASSTHROUGHS :
         /\ __getattr__(name).raised = "none"
         /\ \E run \in PortRuns(name) :
              LET b == BridgePortOp(name, run[1], run[2])
              IN  /\ Execute(b.cmds)
                  /\ Record("deferred." \o name, b.result)
    /\ UNCHANGED <<full_ordered, order, action_flow_tuples, nsub, inScope, aborted>>
    /\ UNCHANGED portVars
    /\ UNCHANGED <<cmdVars, pureVars>>

Next ==
    \/ add_flow
    \/ mod_flow
    \/ delete_flows
    \/ apply_flows
    \/ Enter
    \/ ExitOk
    \/ ExitFail
    \/ br_add_flow
    \/ br_mod_flow
    \/ br_delete_flows
    \/ deferred_getattr
    \/ deferred_passthrough

Spec == Init /\ [][Next]_vars


(***************************************************************************)
(* OVSBridge.add_port and get_port_ofport.                                 *)
(***************************************************************************)
InitPort ==
    /\ InitFlow
    /\ full_ordered = FALSE
    /\ order = DefaultOrder
    /\ vsctl_timeout \in 0..MaxTimeout
    /\ portPresent \in BOOLEAN
    /\ PortIdle
    /\ SwitchEmpty
    /\ CmdIdle
    /\ PureIdle

\* The answers the switch gives to the polls of one get_port_ofport call:
\* a port the bridge lacks never gets an ofport.
ChoosePlan(present) ==
    /\ planK' \in IF present THEN (0..MaxK) \cup {Never} ELSE {Never}
    /\ planVal' \in IntOutputs

StartRetry ==
    /\ attempt_number' = 1
    /\ elapsed' = 0
    /\ backoff' = 0
    /\ lastCheck' = Never
    /\ ofport' = "none"
    /\ raised' = "none"

\* add_port up to the call of get_port_ofport: run_vsctl(add-port) with
\* check_error=False, so a failure of the command is logged and swallowed.
AddPortCall ==
    /\ pc = "idle"
    /\ \E failed \in BOOLEAN :
         /\ portPresent' = (portPresent \/ ~failed)
         /\ ChoosePlan(portPresent \/ ~failed)
    /\ caller' = "add_port"
    /\ pc' = "retry"
    /\ StartRetry
    /\ UNCHANGED <<vsctl_timeout>>
    /\ UNCHANGED flowVars
    /\ UNCHANGED <<cmdVars, pureVars>>

\* get_port_ofport called by itself
GetPortOfportCall ==
    /\ pc = "idle"
    /\ ChoosePlan(portPresent)
    /\ caller' = "get_port_ofport"
    /\ pc' = "retry"
    /\ StartRetry
    /\ UNCHANGED <<vsctl_timeout, portPresent>>
    /\ UNCHANGED flowVars
    /\ UNCHANGED <<cmdVars, pureVars>>

\* What poll number n of this call returns: pending outputs first, either
\* '[]' or None, then the integer.
PollOutputs(n) ==
    IF planK = Never \/ n <= planK THEN PendingOutputs ELSE {planVal}

\* The answers of the executor that give poll number n one of its outputs.
PollReplies(n) ==
    {rp \in Replies : _get_port_ofport(rp.outcome, rp.stdout) \in PollOutputs(n)}

\* One iteration of the loop of retrying around _get_port_ofport: the
\* attempt, should_reject, the stop check, the sleep.  get_port_ofport turns
\* the RetryError of the stop into INVALID_OFPORT.
Attempt ==
    /\ pc = "retry"
    /\ \E rp \in PollReplies(attempt_number), took \in PollTimes :
         LET result == _get_port_ofport(rp.outcome, rp.stdout)
             delay_since_first_attempt_ms == elapsed + took
             sleep == exponential_sleep(attempt_number)
             returned == IF caller = "add_port" THEN "resolved" ELSE "done"
         IN  /\ cmdOp' = "db_get_val"
             /\ cmdOutcome' = rp.outcome
             /\ cmdIssued' = 1
             /\ cmdRaised' = "none"
             /\ cmdValue' = result
             /\ IF ~_ofport_result_pending(result)
                THEN /\ ofport' = result
                     /\ pc' = returned
                     /\ elapsed' = delay_since_first_attempt_ms
                     /\ UNCHANGED <<attempt_number, backoff, lastCheck, raised>>
                ELSE IF stop_after_delay(vsctl_timeout, delay_since_first_attempt_ms)
                THEN /\ ofport' = get_port_ofport_except("RetryError").ofport
                     /\ raised' = get_port_ofport_except("RetryError").raised
                     /\ pc' = returned
                     /\ elapsed' = delay_since_first_attempt_ms
                     /\ lastCheck' = delay_since_first_attempt_ms
                     /\ UNCHANGED <<attempt_number, backoff>>
                ELSE /\ elapsed' = delay_since_first_attempt_ms + sleep
                     /\ backoff' = backoff + sleep
                     /\ lastCheck' = delay_since_first_attempt_ms
                     /\ attempt_number' = attempt_number + 1
                     /\ UNCHANGED <<ofport, pc, raised>>
    /\ UNCHANGED <<vsctl_timeout, portPresent, caller, planK, planVal>>
    /\ UNCHANGED flowVars
    /\ UNCHANGED <<bridgePresent, swPorts, dbAttr>>
    /\ UNCHANGED pureVars

\* OVSBridge.delete_port: run_vsctl(del-port) with check_error=False.
DeletePortEffect ==
    \E failed \in BOOLEAN : portPresent' = (portPresent /\ failed)

\* add_port after get_port_ofport: delete the port when the ofport is invalid,
\* return the ofport.
AddPortFinish ==
    /\ pc = "resolved"
    /\ IF ofport = INVALID_OFPORT
       THEN DeletePortEffect
       ELSE UNCHANGED portPresent
    /\ pc' = "done"
    /\ UNCHANGED <<vsctl_timeout, caller, planK, planVal, attempt_number,
                   elapsed, backoff, lastCheck, ofport, raised>>
    /\ UNCHANGED flowVars
    /\ UNCHANGED <<cmdVars, pureVars>>

\* The caller takes the result.
Return ==
    /\ pc = "done"
    /\ pc' = "idle"
    /\ UNCHANGED <<vsctl_timeout, portPresent, caller, planK, planVal,
                   attempt_number, elapsed, backoff, lastCheck, ofport, raised>>
    /\ UNCHANGED flowVars
    /\ UNCHANGED <<cmdVars, pureVars>>

NextPort ==
    \/ AddPortCall
    \/ GetPortOfportCall
    \/ Attempt
    \/ AddPortFinish
    \/ Return

SpecPort == InitPort /\ [][NextPort]_vars

\* The calls are synchronous: a running add_port / get_port_ofport goes on.
SpecPortLive == SpecPort /\ WF_vars(Attempt) /\ WF_vars(AddPortFinish)

(***************************************************************************)
(* The bridge operations that run one command.                             *)
(***************************************************************************)
InitCmd ==
    /\ InitFlow
    /\ full_ordered = FALSE
    /\ order = DefaultOrder
    /\ vsctl_timeout = MaxTimeout
    /\ portPresent = FALSE
    /\ PortIdle
    /\ bridgePresent \in BOOLEAN
    /\ swPorts = {}
    /\ dbAttr = "unset"
    /\ CmdIdle
    /\ PureIdle

\* The operation op handed its command to the executor once, with the
\* outcome outcome, and ended with r.
CmdDone(op, outcome, r) ==
    /\ cmdOp' = op
    /\ cmdOutcome' = outcome
    /\ cmdIssued' = 1
    /\ cmdRaised' = r.raised
    /\ cmdValue' = r.value

\* Operations that return nothing.
NoValue(r) == [raised |-> r.raised, value |-> "None"]

\* BaseOVS.add_bridge
add_bridge ==
    \E outcome \in Outcomes :
        /\ CmdDone("add_bridge", outcome, NoValue(run_vsctl(outcome, FALSE)))
        /\ bridgePresent' = (bridgePresent \/ outcome.status = "ok")
        /\ UNCHANGED <<swPorts, dbAttr>>
        /\ UNCHANGED <<flowVars, portVars, pureVars>>

\* BaseOVS.delete_bridge
delete_bridge ==
    \E outcome \in Outcomes :
        /\ CmdDone("delete_bridge", outcome, NoValue(run_vsctl(outcome, FALSE)))
        /\ bridgePresent' = (bridgePresent /\ outcome.status # "ok")
        /\ swPorts' = IF outcome.status = "ok" THEN {} ELSE swPorts
        /\ UNCHANGED <<dbAttr>>
        /\ UNCHANGED <<flowVars, portVars, pureVars>>

\* BaseOVS.bridge_exists: br-exists exits with 0 for a bridge the switch has
\* and with 2 for one it lacks; it can fail otherwise in both cases.
cmd_bridge_exists ==
    \E outcome \in Outcomes :
        /\ outcome.status = "ok" => bridgePresent
        /\ (outcome.status = "RuntimeError" /\ outcome.code = "2") => ~bridgePresent
        /\ CmdDone("bridge_exists", outcome, bridge_exists(outcome))
        /\ UNCHANGED <<bridgePresent, swPorts, dbAttr>>
        /\ UNCHANGED <<flowVars, portVars, pureVars>>

\* OVSBridge.replace_port
replace_port ==
    \E outcome \in Outcomes, port_name \in PortNames :
        /\ bridgePresent \/ outcome.status # "ok"
        /\ CmdDone("replace_port", outcome, NoValue(run_vsctl(outcome, FALSE)))
        /\ swPorts' = IF outcome.status = "ok" THEN swPorts \cup {port_name} ELSE swPorts
        /\ UNCHANGED <<bridgePresent, dbAttr>>
        /\ UNCHANGED <<flowVars, portVars, pureVars>>

\* OVSBridge.delete_port
delete_port ==
    \E outcome \in Outcomes, port_name \in PortNames :
        /\ CmdDone("delete_port", outcome, NoValue(run_vsctl(outcome, FALSE)))
        /\ swPorts' = IF outcome.status = "ok" THEN swPorts \ {port_name} ELSE swPorts
        /\ UNCHANGED <<bridgePresent, dbAttr>>
        /\ UNCHANGED <<flowVars, portVars, pureVars>>

\* OVSBridge.set_db_attribute
set_db_attribute ==
    \E outcome \in Outcomes :
        /\ CmdDone("set_db_attribute", outcome, NoValue(run_vsctl(outcome, FALSE)))
        /\ dbAttr' = IF outcome.status = "ok" THEN "set" ELSE dbAttr
        /\ UNCHANGED <<bridgePresent, swPorts>>
        /\ UNCHANGED <<flowVars, portVars, pureVars>>

\* OVSBridge.clear_db_attribute
clear_db_attribute ==
    \E outcome \in Outcomes :
        /\ CmdDone("clear_db_attribute", outcome, NoValue(run_vsctl(outcome, FALSE)))
        /\ dbAttr' = IF outcome.status = "ok" THEN "unset" ELSE dbAttr
        /\ UNCHANGED <<bridgePresent, swPorts>>
        /\ UNCHANGED <<flowVars, portVars, pureVars>>

\* OVSBridge.db_get_val with the default check_error=False: the output
\* without its line end, None when there is none.
db_get_val ==
    \E outcome \in Outcomes :
        LET r == run_vsctl(outcome, FALSE)
        IN  /\ CmdDone("db_get_val", outcome,
                       [raised |-> r.raised,
                        value |-> IF r.output = "None" THEN "None" ELSE dbAttr])
            /\ UNCHANGED <<bridgePresent, swPorts, dbAttr>>
            /\ UNCHANGED <<flowVars, portVars, pureVars>>

\* OVSBridge.remove_all_flows
remove_all_flows ==
    \E outcome \in Outcomes :
        /\ CmdDone("remove_all_flows", outcome, NoValue(run_ofctl(outcome)))
        /\ UNCHANGED <<bridgePresent, swPorts, dbAttr>>
        /\ UNCHANGED <<flowVars, portVars, pureVars>>

\* OVSBridge.add_flow / mod_flow / delete_flows with a valid rule: the
\* command of do_action_flows goes through run_ofctl.
ofctl_flow ==
    \E outcome \in Outcomes, kind \in {"add", "mod", "del"} :
        /\ do_action_flows(kind, << [action |-> kind, flow |-> FlowA, id |-> 0] >>).error = ""
        /\ CmdDone(kind \o "_flow", outcome, NoValue(run_ofctl(outcome)))
        /\ UNCHANGED <<bridgePresent, swPorts, dbAttr>>
        /\ UNCHANGED <<flowVars, portVars, pureVars>>

NextCmd ==
    \/ add_bridge
    \/ delete_bridge
    \/ cmd_bridge_exists
    \/ replace_port
    \/ delete_port
    \/ set_db_attribute
    \/ clear_db_attribute
    \/ db_get_val
    \/ remove_all_flows
    \/ ofctl_flow

SpecCmd == InitCmd /\ [][NextCmd]_vars

(***************************************************************************)
(* _build_flow_expr_str on every rule of at most MaxKeys fields, in every  *)
(* iteration order of the fields.                                          *)
(***************************************************************************)
\* Number of fields of a rule.
MaxKeys == 5

ExprKeys == {"hard_timeout", "idle_timeout", "priority", "proto", "in_port", "actions"}

\* The value a rule gives a field.
FieldValue(k) ==
    CASE k = "hard_timeout" -> "30"
      [] k = "idle_timeout" -> "20"
      [] k = "priority" -> "5"
      [] k = "proto" -> "arp"
      [] k = "in_port" -> "1"
      [] OTHER -> "drop"

KeyOrders ==
    {ks \in UNION {[1..n -> ExprKeys] : n \in 0..MaxKeys} :
        \A i, j \in 1..Len(ks) : i # j => ks[i] # ks[j]}

FlowDicts == {[i \in 1..Len(ks) |-> <<ks[i], FieldValue(ks[i])>>] : ks \in KeyOrders}

InitExpr ==
    /\ InitFlow
    /\ full_ordered = FALSE
    /\ order = DefaultOrder
    /\ vsctl_timeout = MaxTimeout
    /\ portPresent = FALSE
    /\ PortIdle
    /\ SwitchEmpty
    /\ CmdIdle
    /\ fn = "none"
    /\ arg \in [flow_dict : FlowDicts, cmd : {"add", "mod", "del"}]
    /\ res = <<>>

Render ==
    /\ fn = "none"
    /\ fn' = "_build_flow_expr_str"
    /\ res' = _build_flow_expr_str(arg.flow_dict, arg.cmd)
    /\ UNCHANGED arg
    /\ UNCHANGED <<flowVars, portVars, cmdVars>>

NextExpr == Render

SpecExpr == InitExpr /\ [][NextExpr]_vars

(***************************************************************************)
(* get_vif_ports, get_vif_port_set and get_port_tag_dict on the rows of    *)
(* the Interface and the Port table.  A JSON value is an integer, a list,  *)
(* or the two-element list ["set", items].                                 *)
(***************************************************************************)
\* Number of rows of a table.
MaxRows == 2

JInt(n) == [t |-> "int", n |-> n, items |-> <<>>]
JList(items) == [t |-> "list", n |-> 0, items |-> items]
JSet(items) == [t |-> "set", n |-> 0, items |-> items]

\* The ofport column: assigned, zero, failed (-1) or not yet assigned.
OfportColumn == {JInt(5), JInt(0), JInt(0 - 1), JSet(<<>>)}

\* The tag column on the wire: an integer, the empty set, or a set of one
\* integer.
TagColumn == {JInt(0), JInt(5), JSet(<<>>), JSet(<<5>>)}

\* The keys of external_ids: a VIF, a XenServer VIF, not a VIF.
ExternalIds == {{"iface-id", "attached-mac"}, {"xs-vif-uuid", "attached-mac"},
                {"iface-id"}}

\* str() of an integer of the ofport column.
IntText(n) ==
    CASE n = 5 -> "5"
      [] n = 0 -> "0"
      [] OTHER -> "-1"

\* What "ovs-vsctl get Interface <name> ofport" prints for a column value.
GetOutput(v) == IF v.t = "int" THEN IntText(v.n) ELSE "[]"

InterfaceTables ==
    {[table |-> "Interface", rows |-> rows] :
        rows \in UNION {[1..n -> [external_ids : ExternalIds, ofport : OfportColumn]] :
                           n \in 1..MaxRows}}

PortTables ==
    {[table |-> "Port", rows |-> rows] :
        rows \in UNION {[1..n -> [tag : TagColumn]] : n \in 1..MaxRows}}

\* The rows that have attached-mac and iface-id or xs-vif-uuid.
IsVif(external_ids) ==
    /\ "attached-mac" \in external_ids
    /\ "iface-id" \in external_ids \/ "xs-vif-uuid" \in external_ids

\* get_vif_ports: a VifPort for every VIF row, with the ofport text of the
\* row; the iface id of row i is i.
get_vif_ports(rows) ==
    LET vifs == SelectSeq([i \in 1..Len(rows) |->
                              [port_name |-> i,
                               ofport |-> GetOutput(rows[i].ofport),
                               vif_id |-> i,
                               external_ids |-> rows[i].external_ids]],
                          LAMBDA p : IsVif(p.external_ids))
    IN  [i \in 1..Len(vifs) |->
            [port_name |-> vifs[i].port_name, ofport |-> vifs[i].ofport,
             vif_id |-> vifs[i].vif_id]]

\* get_vif_port_set: the iface ids of the VIF rows whose ofport is an
\* integer of at least 1.
get_vif_port_set(rows) ==
    {i \in 1..Len(rows) :
        /\ rows[i].ofport.t = "int"
        /\ ~(rows[i].ofport.n < 1)
        /\ IsVif(rows[i].external_ids)}

\* get_port_tag_dict: tag[1] for a tag that is a list, the tag otherwise.
get_port_tag_dict(rows) ==
    [i \in 1..Len(rows) |->
        IF rows[i].tag.t # "int" THEN JList(rows[i].tag.items) ELSE rows[i].tag]

InitTable ==
    /\ InitFlow
    /\ full_ordered = FALSE
    /\ order = DefaultOrder
    /\ vsctl_timeout = MaxTimeout
    /\ portPresent = FALSE
    /\ PortIdle
    /\ SwitchEmpty
    /\ CmdIdle
    /\ fn = "none"
    /\ arg \in InterfaceTables \cup PortTables
    /\ res = <<>>

Apply(name, value) ==
    /\ fn = "none"
    /\ fn' = name
    /\ res' = value
    /\ UNCHANGED arg
    /\ UNCHANGED <<flowVars, portVars, cmdVars>>

call_get_vif_ports ==
    /\ arg.table = "Interface"
    /\ Apply("get_vif_ports", get_vif_ports(arg.rows))

call_get_vif_port_set ==
    /\ arg.table = "Interface"
    /\ Apply("get_vif_port_set", get_vif_port_set(arg.rows))

call_get_port_tag_dict ==
    /\ arg.table = "Port"
    /\ Apply("get_port_tag_dict", get_port_tag_dict(arg.rows))

NextTable ==
    \/ call_get_vif_ports
    \/ call_get_vif_port_set
    \/ call_get_port_tag_dict

SpecTable == InitTable /\ [][NextTable]_vars

(***************************************************************************)
(* Vocabulary of the properties.  It is written from the buffer and the    *)
(* commands alone and uses none of the operators of apply_flows.           *)
(***************************************************************************)
SubmitOps == {"add_flow", "mod_flow", "delete_flows"}
FlushOps == {"apply_flows", "exit_ok"}
DirectOps == {"br.add_flow", "br.mod_flow", "br.delete_flows"}

KindOf(op) ==
    CASE op = "add_flow" -> "add"
      [] op = "mod_flow" -> "mod"
      [] op = "delete_flows" -> "del"
      [] OTHER -> "none"

OfKind(buf, kind) == SelectSeq(buf, LAMBDA e : e.action = kind)

IdsOf(buf) == [i \in 1..Len(buf) |-> buf[i].id]

\* The ids the commands carry, command after command.
RECURSIVE Flatten(_)
Flatten(cmds) ==
    IF cmds = <<>> THEN <<>>
    ELSE Flatten(SubSeq(cmds, 1, Len(cmds) - 1)) \o cmds[Len(cmds)].ids

IsPrefix(s, t) == Len(s) <= Len(t) /\ SubSeq(t, 1, Len(s)) = s

\* A rule that passes the two checks of the flow expression for its kind.
ValidOp(e) ==
    /\ ~(e.action # "add" /\ DictHas(e.flow, "priority"))
    /\ ~(e.action # "del" /\ ~DictHas(e.flow, "actions"))

\* The order in which a flush handles the operations of the buffer.
Handled(buf) ==
    IF full_ordered THEN buf
    ELSE OfKind(buf, order[1]) \o OfKind(buf, order[2]) \o OfKind(buf, order[3])

\* The operations of the runs that precede the run of the first invalid
\* operation of h (all of h when every operation is valid).
BeforeFailingRun(h) ==
    IF \A i \in 1..Len(h) : ValidOp(h[i]) THEN h
    ELSE LET f == CHOOSE i \in 1..Len(h) :
                      ~ValidOp(h[i]) /\ \A j \in 1..(i - 1) : ValidOp(h[j])
             start == CHOOSE i \in 1..f :
                      /\ \A j \in i..f : h[j].action = h[f].action
                      /\ i > 1 => h[i - 1].action # h[f].action
         IN  SubSeq(h, 1, start - 1)

DefaultOrdering == ~full_ordered /\ order = <<"add", "mod", "del">>

KindRank(kind) == CASE kind = "add" -> 1 [] kind = "mod" -> 2 [] OTHER -> 3

\* C1: under the default ordering the commands of a flush are in the order
\* add, mod, del, one per kind, and the command of a kind carries the buffered
\* operations of that kind in their submission order.
C1_DefaultOrderStable ==
    (lastOp \in FlushOps /\ DefaultOrdering) =>
        /\ \A i, j \in 1..Len(lastCmds) :
               i < j => KindRank(lastCmds[i].cmd) < KindRank(lastCmds[j].cmd)
        /\ \A c \in 1..Len(lastCmds) :
               lastCmds[c].ids = IdsOf(OfKind(prevBuf, lastCmds[c].cmd))
        /\ lastResult = "ok" =>
               {lastCmds[c].cmd : c \in 1..Len(lastCmds)} =
               {prevBuf[i].action : i \in 1..Len(prevBuf)}

\* A flush under the default ordering of a buffer mod, add, mod: the add
\* command comes first and the mod command carries operations 1 and 3.
C1_Witness ==
    /\ lastOp = "apply_flows" /\ DefaultOrdering /\ lastResult = "ok"
    /\ Len(prevBuf) = 3
    /\ prevBuf[1].action = "mod" /\ prevBuf[2].action = "add" /\ prevBuf[3].action = "mod"
    /\ Len(lastCmds) = 2
    /\ lastCmds[1].ids = <<2>> /\ lastCmds[2].ids = <<1, 3>>

\* C2: a submission appends one entry of its kind to the buffer, changes no
\* earlier entry and issues no command; no buffered operation has ever been
\* in a command.
C2_SubmitStep ==
    lastOp' \in SubmitOps =>
        /\ lastCmds' = <<>>
        /\ timesIssued' = timesIssued
        /\ Len(action_flow_tuples') = Len(action_flow_tuples) + 1
        /\ SubSeq(action_flow_tuples', 1, Len(action_flow_tuples)) = action_flow_tuples
        /\ action_flow_tuples'[Len(action_flow_tuples')].action = KindOf(lastOp')

C2_BufferedNotIssued ==
    \A i \in 1..Len(action_flow_tuples) : timesIssued[action_flow_tuples[i].id] = 0

C2_SubmitOnlyAppends == [](C2_BufferedNotIssued) /\ [][C2_SubmitStep]_vars

\* A submission made after an earlier operation was flushed and issued.
C2_Witness ==
    /\ lastOp \in SubmitOps
    /\ Len(action_flow_tuples) >= 2
    /\ timesIssued[1] = 1

\* C3: an apply_flows on an empty buffer, and an apply_flows that directly
\* follows a flush, issues no command.
C3_EmptyFlushIssuesNothing ==
    [][(lastOp' = "apply_flows" /\ (action_flow_tuples = <<>> \/ lastOp \in FlushOps))
          => (lastCmds' = <<>> /\ timesIssued' = timesIssued)]_vars

\* An apply_flows on the buffer an earlier flush emptied, after that flush
\* issued two operations.
C3_Witness ==
    /\ lastOp = "apply_flows"
    /\ prevBuf = <<>>
    /\ lastCmds = <<>>
    /\ timesIssued[1] = 1 /\ timesIssued[2] = 1

\* C4: leaving the scope without a failure is one apply_flows: the buffer is
\* emptied and no operation is issued more than once more, every buffered
\* one exactly once when the flush completes; leaving it by a failure issues
\* nothing, keeps the counts and ends with the failure.
C4_ExitStep ==
    /\ lastOp' = "exit_ok" =>
           /\ action_flow_tuples' = <<>>
           /\ \A id \in 1..MaxOps :
                  /\ timesIssued'[id] <= timesIssued[id] + 1
                  /\ id \notin BufIds(action_flow_tuples) => timesIssued'[id] = timesIssued[id]
           /\ lastResult' = "ok" =>
                  /\ \A id \in BufIds(action_flow_tuples) :
                         timesIssued'[id] = timesIssued[id] + 1
                  /\ Len(Flatten(lastCmds')) = Len(action_flow_tuples)
    /\ lastOp' = "exit_fail" =>
           /\ lastCmds' = <<>>
           /\ timesIssued' = timesIssued
           /\ lastResult' # "ok"

C4_ScopedExit == [][C4_ExitStep]_vars

\* A scope left by a failure with two operations buffered, after an earlier
\* scope was left normally and issued its operation.
C4_Witness ==
    /\ lastOp = "exit_fail"
    /\ Len(action_flow_tuples) = 2
    /\ timesIssued[1] = 1
    /\ lastCmds = <<>>

\* C5: the operations buffered when a scope is left by a failure are
\* discarded: the buffer is empty after the exit and none of them is ever
\* issued.
C5_AbortDiscards ==
    /\ lastOp = "exit_fail" => action_flow_tuples = <<>>
    /\ \A id \in aborted : timesIssued[id] = 0

\* C6: a flush leaves the buffer empty also when it fails, no operation is
\* issued twice, and an operation that has left the buffer is not issued by a
\* later operation.
C6_FlushedStep ==
    \A id \in 1..nsub :
        id \notin BufIds(action_flow_tuples) => timesIssued'[id] = timesIssued[id]

C6_BufferEmptied ==
    /\ lastOp \in FlushOps => action_flow_tuples = <<>>
    /\ \A id \in 1..MaxOps : timesIssued[id] <= 1

C6_SwapBeforeIssue == [](C6_BufferEmptied) /\ [][C6_FlushedStep]_vars

\* An apply_flows that failed after its first command.
C6_Witness ==
    /\ lastOp = "apply_flows"
    /\ lastResult = "InvalidInput"
    /\ Len(lastCmds) >= 1
    /\ action_flow_tuples = <<>>

\* C7 as stated: a call that ends with the validation error has issued no
\* command.
C7_NoCommandOnValidationError ==
    (lastOp \in DirectOps \cup {"apply_flows"} /\ lastResult = "InvalidInput")
        => lastCmds = <<>>

\* C7 amended: a direct add_flow/mod_flow/delete_flows that ends with the
\* validation error has issued no command; an apply_flows that ends with it
\* has issued exactly the commands of the runs before the failing run, none
\* for the failing run or a later one.
C7_NoCommandFromFailingRun ==
    /\ (lastOp \in DirectOps /\ lastResult = "InvalidInput") => lastCmds = <<>>
    /\ (lastOp \in FlushOps /\ lastResult = "InvalidInput") =>
           /\ Flatten(lastCmds) = IdsOf(BeforeFailingRun(Handled(prevBuf)))
           /\ \E i \in 1..Len(prevBuf) : ~ValidOp(prevBuf[i])
           /\ \A i \in 1..Len(prevBuf) :
                  ~ValidOp(prevBuf[i]) => timesIssued[prevBuf[i].id] = 0

\* A strictly ordered flush of valid, invalid, valid: one command was issued
\* before the validation error.
C7_Witness ==
    /\ lastOp = "apply_flows" /\ full_ordered
    /\ lastResult = "InvalidInput"
    /\ Len(prevBuf) = 3
    /\ ~ValidOp(prevBuf[2])
    /\ Len(lastCmds) = 1

\* C8: with full_ordered the commands follow the buffer: every command
\* carries operations of its kind only, adjacent commands differ in kind, and
\* the commands together carry a prefix of the buffer in submission order,
\* all of it when the flush completes.
C8_StrictOrderRuns ==
    (lastOp \in FlushOps /\ full_ordered) =>
        /\ IsPrefix(Flatten(lastCmds), IdsOf(prevBuf))
        /\ lastResult = "ok" => Flatten(lastCmds) = IdsOf(prevBuf)
        /\ \A c \in 1..Len(lastCmds) :
               /\ lastCmds[c].ids # <<>>
               /\ \A i \in 1..Len(prevBuf) :
                      (\E k \in 1..Len(lastCmds[c].ids) : lastCmds[c].ids[k] = prevBuf[i].id)
                          => prevBuf[i].action = lastCmds[c].cmd
        /\ \A c \in 1..(Len(lastCmds) - 1) : lastCmds[c].cmd # lastCmds[c + 1].cmd

\* A strictly ordered flush of add, add, mod: two commands, the first with
\* the two adds.
C8_Witness ==
    /\ lastOp = "apply_flows" /\ full_ordered /\ lastResult = "ok"
    /\ Len(prevBuf) = 3
    /\ Len(lastCmds) = 2
    /\ lastCmds[1].cmd = "add" /\ lastCmds[1].ids = <<1, 2>>
    /\ lastCmds[2].cmd = "mod"

\* C9: when add_port returns INVALID_OFPORT the bridge does not have the
\* port.
C9_InvalidPortDeleted ==
    (pc = "done" /\ caller = "add_port" /\ ofport = INVALID_OFPORT) => ~portPresent

\* The ms slept before poll number k + 1.
RECURSIVE CumulativeBackoff(_)
CumulativeBackoff(k) ==
    IF k = 0 THEN 0 ELSE CumulativeBackoff(k - 1) + exponential_sleep(k)

Returned == pc \in {"resolved", "done"}

\* C10 as stated: pending for the first planK polls, then a positive integer,
\* and the cumulative backoff under the deadline: the result is the integer;
\* never an integer: the result is INVALID_OFPORT and nothing is raised.
C10_ConvergesUnderBackoff ==
    Returned =>
        /\ (planK # Never /\ ParseInt(planVal).val > 0
               /\ CumulativeBackoff(planK) < vsctl_timeout * 1000) => ofport = planVal
        /\ planK = Never => (ofport = INVALID_OFPORT /\ raised = "none")

\* C10 amended: the result is the integer when the time elapsed since the
\* first poll was under the deadline at every stop check (after every pending
\* poll); when the poll never gives an integer the result is INVALID_OFPORT,
\* nothing is raised, and the last check found the deadline reached.
C10_ConvergesUnderElapsed ==
    Returned =>
        /\ (planK # Never /\ ParseInt(planVal).val > 0
               /\ (lastCheck = Never \/ lastCheck < vsctl_timeout * 1000)) => ofport = planVal
        /\ planK = Never =>
               /\ ofport = INVALID_OFPORT
               /\ raised = "none"
               /\ lastCheck >= vsctl_timeout * 1000

\* get_port_ofport returned 5 after three pending polls that took time.
C10_Witness ==
    /\ pc = "done" /\ caller = "get_port_ofport"
    /\ planK = 3 /\ planVal = "5"
    /\ ofport = "5"
    /\ attempt_number = 4
    /\ elapsed > backoff

\* C11: the poll loop ends: a running get_port_ofport returns, every wait is
\* between 1 and 1000 ms, and a wait is started only when the time elapsed
\* since the first poll was under vsctl_timeout * 1000 ms at the stop check.
C11_WaitStep ==
    backoff' > backoff =>
        /\ backoff' - backoff <= 1000
        /\ lastCheck' < vsctl_timeout * 1000
        /\ elapsed' = lastCheck' + (backoff' - backoff)

C11_Returns == (pc = "retry") ~> (pc # "retry")

C11_PollLoopBounded == [][C11_WaitStep]_vars /\ C11_Returns

\* A get_port_ofport on a port that never resolves, returned at the eighth
\* attempt, after the waits 20, 40, ..., 640 and a capped wait of 1000 ms.
C11_Witness ==
    /\ pc = "done"
    /\ planK = Never
    /\ attempt_number = 8
    /\ backoff = 2260
    /\ ofport = INVALID_OFPORT

\* The operations C12 names that run one command, as cmdOp records them.
C12_Ops == {"delete_port", "replace_port", "set_db_attribute",
            "clear_db_attribute", "db_get_val", "remove_all_flows",
            "add_flow", "mod_flow", "del_flow"}

\* C12: when the executor fails on the command of a bridge operation, the
\* operation ends in an error and has run the command exactly once.
C12_HardFailurePropagates ==
    (cmdOp \in C12_Ops /\ cmdOutcome \in HardFailures) =>
        (cmdRaised # "none" /\ cmdIssued = 1)

\* C13: bridge_exists returns True when br-exists succeeds, False without
\* raising when it exits with code 2, and raises for every other failure; it
\* returns False only for exit code 2.
C13_BridgeExists ==
    cmdOp = "bridge_exists" =>
        /\ cmdOutcome.status = "ok" => (cmdRaised = "none" /\ cmdValue = "True")
        /\ (cmdOutcome.status = "RuntimeError" /\ cmdOutcome.code = "2") =>
               (cmdRaised = "none" /\ cmdValue = "False")
        /\ (cmdOutcome \in HardFailures
               /\ ~(cmdOutcome.status = "RuntimeError" /\ cmdOutcome.code = "2")) =>
               (cmdRaised = cmdOutcome.status /\ cmdValue = "None")
        /\ cmdValue = "False" =>
               (cmdOutcome.status = "RuntimeError" /\ cmdOutcome.code = "2")

\* bridge_exists raised for exit code 22 on a switch without the bridge,
\* where exit code 2 would have given False.
C13_Witness ==
    /\ cmdOp = "bridge_exists"
    /\ ~bridgePresent
    /\ cmdOutcome = [status |-> "RuntimeError", code |-> "22"]
    /\ cmdRaised = "RuntimeError"

Rendered == fn = "_build_flow_expr_str"

\* The fields of the rule rule, in its order.
FieldsOf(rule) == [i \in 1..Len(rule) |-> rule[i][1]]

HasField(rule, k) == \E i \in 1..Len(rule) : rule[i][1] = k

\* The tokens of expr that are k=<something>.
TokensOf(expr, k) == {i \in 1..Len(expr) : Len(expr[i]) = 2 /\ expr[i][1] = k}

LeadingFields == {"hard_timeout", "idle_timeout", "priority"}

\* C14: rendering fails with the validation error for every mod or del rule
\* with priority and for every add or mod rule without actions.
C14_ValidationAlwaysFails ==
    Rendered =>
        /\ (arg.cmd \in {"mod", "del"} /\ HasField(arg.flow_dict, "priority"))
               => res.error = "InvalidInput"
        /\ (arg.cmd \in {"add", "mod"} /\ ~HasField(arg.flow_dict, "actions"))
               => res.error = "InvalidInput"

\* A mod rule with actions and priority, and three more fields, was refused.
C14_Witness ==
    /\ Rendered
    /\ arg.cmd = "mod"
    /\ HasField(arg.flow_dict, "priority") /\ HasField(arg.flow_dict, "actions")
    /\ Len(arg.flow_dict) = 5
    /\ res.error = "InvalidInput"

\* C15: a valid add rule renders as hard_timeout, idle_timeout, priority
\* (its value, else 0, 0, 1), one token per other field in the rule's order,
\* and actions last; each of the three leading fields occurs once.
C15_AddExpression ==
    (Rendered /\ arg.cmd = "add" /\ HasField(arg.flow_dict, "actions")) =>
        LET rule == arg.flow_dict
            others == SelectSeq(rule, LAMBDA e : e[1] \notin LeadingFields \cup {"actions"})
            valueOf(k, default) ==
                IF HasField(rule, k) THEN FieldValue(k) ELSE default
        IN  /\ res.error = ""
            /\ Len(res.expr) = Len(others) + 4
            /\ res.expr[1] = <<"hard_timeout", valueOf("hard_timeout", "0")>>
            /\ res.expr[2] = <<"idle_timeout", valueOf("idle_timeout", "0")>>
            /\ res.expr[3] = <<"priority", valueOf("priority", "1")>>
            /\ \A i \in 1..Len(others) :
                   res.expr[3 + i] = IF others[i][1] = "proto"
                                     THEN <<others[i][2]>>
                                     ELSE others[i]
            /\ res.expr[Len(res.expr)] = <<"actions", "drop">>
            /\ \A k \in LeadingFields : Cardinality(TokensOf(res.expr, k)) = 1

\* An add rule that lists actions first and priority last, with proto and
\* in_port between: priority=5 is the third token, actions=drop the last.
C15_Witness ==
    /\ Rendered
    /\ arg.cmd = "add"
    /\ FieldsOf(arg.flow_dict) = <<"actions", "proto", "in_port", "priority">>
    /\ res.expr = << <<"hard_timeout", "0">>, <<"idle_timeout", "0">>,
                     <<"priority", "5">>, <<"arp">>, <<"in_port", "1">>,
                     <<"actions", "drop">> >>

\* C16: a valid mod or del rule renders without a hard_timeout, idle_timeout
\* or priority token the rule lacks, and with actions as the last token when
\* the rule has actions.
C16_ModDelExpression ==
    (Rendered /\ arg.cmd \in {"mod", "del"} /\ res.error = "") =>
        /\ \A k \in LeadingFields :
               ~HasField(arg.flow_dict, k) => TokensOf(res.expr, k) = {}
        /\ HasField(arg.flow_dict, "actions") =>
               res.expr[Len(res.expr)] = <<"actions", "drop">>

\* C17: through the wrapper the allow-list add_port, add_tunnel_port and
\* delete_port resolves to the operation of the wrapped bridge; any other
\* bridge operation fails at once with AttributeError, issues no command and
\* leaves the buffer and the issue counts as they were.
C17_LookupStep ==
    /\ lastOp' \in OtherBridgeOps =>
           /\ lastResult' = "AttributeError"
           /\ lastCmds' = <<>>
           /\ timesIssued' = timesIssued
           /\ action_flow_tuples' = action_flow_tuples
    /\ lastOp' \in ALLOWED_PASSTHROUGHS =>
           /\ lastResult' = "br." \o lastOp'
           /\ action_flow_tuples' = action_flow_tuples
    /\ action_flow_tuples' # action_flow_tuples =>
           lastOp' \in SubmitOps \cup FlushOps

C17_OnlyAllowedPassThrough == [][C17_LookupStep]_vars

\* remove_all_flows was refused on a wrapper that holds a buffered operation.
C17_Witness ==
    /\ lastOp = "remove_all_flows"
    /\ lastResult = "AttributeError"
    /\ Len(action_flow_tuples) = 1
    /\ lastCmds = <<>>

\* The places of operation id in the commands cmds.
PlacesOf(cmds, id) ==
    {<<c, k>> \in (1..Len(cmds)) \X (1..MaxOps) :
        k <= Len(cmds[c].ids) /\ cmds[c].ids[k] = id}

\* C20: under the default ordering a flush that completes issues one command
\* for each kind in the buffer, at most three, and every buffered operation
\* has one place in one of them; no operation is ever issued twice.
C20_OneCommandPerKind ==
    /\ (lastOp \in FlushOps /\ DefaultOrdering /\ lastResult = "ok") =>
           /\ Len(lastCmds) = Cardinality({prevBuf[i].action : i \in 1..Len(prevBuf)})
           /\ Len(lastCmds) <= 3
           /\ Len(Flatten(lastCmds)) = Len(prevBuf)
           /\ \A i \in 1..Len(prevBuf) :
                  /\ Cardinality(PlacesOf(lastCmds, prevBuf[i].id)) = 1
                  /\ timesIssued[prevBuf[i].id] = 1
    /\ \A id \in 1..MaxOps : timesIssued[id] <= 1

\* A completed flush of the buffer del, add, del under the default ordering:
\* two commands, each of the three operations issued once.
C20_Witness ==
    /\ lastOp = "apply_flows" /\ DefaultOrdering /\ lastResult = "ok"
    /\ Len(prevBuf) = 3
    /\ prevBuf[1].action = "del" /\ prevBuf[2].action = "add" /\ prevBuf[3].action = "del"
    /\ Len(lastCmds) = 2
    /\ \A id \in 1..3 : timesIssued[id] = 1

\* A column value that is a positive integer.
PositiveOfport(v) == v.t = "int" /\ v.n >= 1

\* C18: get_vif_ports and get_vif_port_set return no entry for an interface
\* whose ofport is not a positive integer.
C18_NotReadyExcluded ==
    /\ fn = "get_vif_ports" =>
           \A k \in 1..Len(res) : PositiveOfport(arg.rows[res[k].port_name].ofport)
    /\ fn = "get_vif_port_set" =>
           \A i \in res : PositiveOfport(arg.rows[i].ofport)

\* C19: the decoded tag of ["set", []] is not an integer, the decoded tag of
\* ["set", [5]] is the integer 5, and an integer tag decodes to itself.
C19_CanonicalTag ==
    fn = "get_port_tag_dict" =>
        \A i \in 1..Len(arg.rows) :
            /\ arg.rows[i].tag = JSet(<<>>) => res[i].t # "int"
            /\ arg.rows[i].tag = JSet(<<5>>) => res[i] = JInt(5)
            /\ arg.rows[i].tag.t = "int" => res[i] = arg.rows[i].tag

\* The number of the run of h that holds h[i]: a run is a maximal stretch of
\* operations of one kind.
RunOf(h, i) ==
    Cardinality({j \in 1..i : j = 1 \/ h[j - 1].action # h[j].action})

\* The run of the first invalid operation of h.
FailingRun(h) ==
    RunOf(h, CHOOSE i \in 1..Len(h) :
                 ~ValidOp(h[i]) /\ \A j \in 1..(i - 1) : ValidOp(h[j]))

\* The operations of run c of h, in their order.
RunAt(h, c) ==
    LET idx == {i \in 1..Len(h) : RunOf(h, i) = c}
    IN  SubSeq(h, CHOOSE i \in idx : \A j \in idx : i <= j,
                  CHOOSE i \in idx : \A j \in idx : j <= i)

\* C21: a flush that fails with the validation error in its k-th run has
\* issued the commands of runs 1..k-1, one per run, and none for run k or a
\* later run; the operations of those runs are gone from the buffer without
\* having been issued, and no step takes an issued command back.
C21_FailStep ==
    /\ (lastOp' \in FlushOps /\ lastResult' = "InvalidInput") =>
           LET h == Handled(action_flow_tuples)
               k == FailingRun(h)
           IN  /\ Len(lastCmds') = k - 1
               /\ \A c \in 1..(k - 1) :
                      /\ lastCmds'[c].ids = IdsOf(RunAt(h, c))
                      /\ lastCmds'[c].cmd = RunAt(h, c)[1].action
               /\ \A i \in 1..Len(h) :
                      /\ RunOf(h, i) < k => timesIssued'[h[i].id] = timesIssued[h[i].id] + 1
                      /\ RunOf(h, i) >= k => timesIssued'[h[i].id] = 0
               /\ action_flow_tuples' = <<>>
    /\ \A id \in 1..MaxOps : timesIssued'[id] >= timesIssued[id]

C21_PartialFlush == [][C21_FailStep]_vars

\* A scope left normally with the buffer add, mod, del in strict order, the
\* mod invalid: the add command was issued, the valid del was dropped.
C21_Witness ==
    /\ lastOp = "exit_ok" /\ full_ordered
    /\ lastResult = "InvalidInput"
    /\ Len(prevBuf) = 3
    /\ prevBuf[1].action = "add" /\ prevBuf[2].action = "mod" /\ prevBuf[3].action = "del"
    /\ ValidOp(prevBuf[1]) /\ ~ValidOp(prevBuf[2]) /\ ValidOp(prevBuf[3])
    /\ Len(lastCmds) = 1 /\ lastCmds[1].ids = <<1>>
    /\ timesIssued[3] = 0
    /\ action_flow_tuples = <<>>

PassthroughCalls == {"deferred." \o name : name \in ALLOWED_PASSTHROUGHS}

\* C22: a passthrough called on the wrapper issues the ovs-vsctl commands of
\* the bridge operation in that very step and leaves the buffer as it was;
\* no operation that is buffered then has been in a command, so the commands
\* of the passthrough come before those of every buffered operation.
C22_PassStep ==
    lastOp' \in PassthroughCalls =>
        /\ lastCmds' # <<>>
        /\ lastCmds'[1].cmd = IF lastOp' = "deferred.delete_port"
                              THEN "del-port" ELSE "add-port"
        /\ \A c \in 1..Len(lastCmds') :
               /\ lastCmds'[c].cmd \in {"add-port", "get", "del-port"}
               /\ lastCmds'[c].ids = <<>>
        /\ action_flow_tuples' = action_flow_tuples
        /\ timesIssued' = timesIssued
        /\ \A id \in BufIds(action_flow_tuples') : timesIssued'[id] = 0

C22_PassthroughImmediate == [][C22_PassStep]_vars

\* add_tunnel_port through the wrapper while an operation is buffered: the
\* add-port command and a poll were issued, the operation is still buffered
\* and not issued.
C22_Witness ==
    /\ lastOp = "deferred.add_tunnel_port"
    /\ lastResult = "5"
    /\ Len(action_flow_tuples) = 1
    /\ Len(lastCmds) = 2 /\ lastCmds[1].cmd = "add-port" /\ lastCmds[2].cmd = "get"
    /\ timesIssued[action_flow_tuples[1].id] = 0

\* C23: get_port_ofport returns a value that parses as an integer (the
\* invalid sentinel is one) and raises nothing; a poll whose command failed
\* or gave no output raises nothing and is followed by the next poll, or by
\* the return of INVALID_OFPORT when the deadline was reached.
C23_PollStep ==
    (pc = "retry" /\ cmdOp' = "db_get_val"
        /\ (cmdOutcome' \in HardFailures \/ cmdValue' = "None")) =>
        /\ raised' = "none"
        /\ \/ /\ pc' = "retry"
              /\ attempt_number' = attempt_number + 1
              /\ lastCheck' < vsctl_timeout * 1000
           \/ /\ pc' # "retry"
              /\ ofport' = INVALID_OFPORT
              /\ lastCheck' >= vsctl_timeout * 1000

C23_ReturnsInteger ==
    Returned =>
        /\ ParseInt(ofport).ok
        /\ ofport \notin PendingOutputs
        /\ raised = "none"

C23_NeverPending == [](C23_ReturnsInteger) /\ [][C23_PollStep]_vars

\* get_port_ofport with a timeout of 1 s: the third poll failed with exit
\* code 1 like a pending one, 1260 ms after the first began; the call
\* returned INVALID_OFPORT and raised nothing.
C23_Witness ==
    /\ pc = "done" /\ caller = "get_port_ofport"
    /\ vsctl_timeout = 1
    /\ cmdOp = "db_get_val"
    /\ cmdOutcome = [status |-> "RuntimeError", code |-> "1"]
    /\ cmdValue = "None"
    /\ attempt_number = 3
    /\ lastCheck = 1260
    /\ ofport = INVALID_OFPORT
    /\ raised = "none"

TypeOK ==
    /\ full_ordered \in BOOLEAN
    /\ nsub \in 0..MaxOps
====
